---- MODULE Spec2Model ----
(***************************************************************************)
(* dpymail: IMAPSSLConnection (the mailbox queries) and MailCheckPoint     *)
(* (the monitoring loop) of src/dpymail/mailserverconnection.py, run       *)
(* against an IMAP4rev1 mailbox.                                           *)
(*                                                                         *)
(* The mailbox is the ascending sequence of the UIDs of its messages.  A   *)
(* message's sequence number is its position in that sequence.  imaplib's  *)
(* search() answers with sequence numbers, uid('search', ...) answers with *)
(* UIDs, and fetch() reads its argument as a sequence number.  A token is  *)
(* the number whose decimal numeral the server sent (int() reads it back). *)
(* A Mail is [uid |-> the token it was fetched with, msg |-> the UID of    *)
(* the message whose content the server delivered].                        *)
(***************************************************************************)
EXTENDS Integers, Sequences, FiniteSets, TLC

VARIABLES mbox, uidnext, conns, pc, cp, old_connection, new_mails, is_fin,
          start_time, elapsed_time, interval_sec, timeout_sec, now,
          error, qconn, polls, sleeps, created, disc, ret, held

vars == <<mbox, uidnext, conns, pc, cp, old_connection, new_mails, is_fin,
          start_time, elapsed_time, interval_sec, timeout_sec, now,
          error, qconn, polls, sleeps, created, disc, ret, held>>

monitorVars == <<conns, pc, cp, old_connection, new_mails, is_fin,
                 start_time, elapsed_time, interval_sec, timeout_sec, now,
                 error, qconn, polls, sleeps, created, disc>>

apiVars == <<ret, held>>

(* ------------------------------ bounds -------------------------------- *)

\* the largest UID the server assigns
MaxUid == 4
\* the largest UID the server assigns while a checkpoint is monitored
MaxMonitorUid == 3
\* the largest getmailcount a caller passes
MaxCount == 3
\* the connection objects alive at one time
MaxConn == 3
\* the clock's last value
MaxTime == 2
\* the largest timeout_sec a caller passes
MaxTimeout == 1
\* the largest interval_sec a caller passes
MaxInterval == 1
\* the poll and sleep counters saturate here
MaxPolls == 2

Min(a, b) == IF a <= b THEN a ELSE b
Max(a, b) == IF a >= b THEN a ELSE b

Tokens == 1..MaxUid
ConnIds == 1..MaxConn

(* ------------------------------ values -------------------------------- *)

\* Python's None where a Mail is expected
NoneMail == [uid |-> 0, msg |-> 0]
IsNone(m) == m.msg = 0

\* IMAPMail(uid=uid, msg_data=msg_data, ...): the token and the content
IMAPMail(uid, msg) == [uid |-> uid, msg |-> msg]

\* the outcome of a call: the exception it raised ("" for none), the list
\* it returned, whether it returned None, and the fetches it issued
Raise(e, log) == [exc |-> e, val |-> <<>>, none |-> FALSE, log |-> log]
Return(v, log) == [exc |-> "", val |-> v, none |-> FALSE, log |-> log]
ReturnNone == [exc |-> "", val |-> <<>>, none |-> TRUE, log |-> <<>>]

\* what the server answers during one call: the status of a search, and
\* for each sequence number how a fetch of it ends ("UNPARSABLE": OK with
\* a payload that IMAPMail cannot parse).  The first fetch that does not
\* deliver a message ends every loop of the connection, so one call meets
\* at most one answer that is not OK.
AllOk == [search |-> "OK", fetch |-> [x \in Tokens |-> "OK"]]
Envs ==
    {AllOk, [AllOk EXCEPT !.search = "NO"]}
    \cup {[AllOk EXCEPT !.fetch[x] = a] : x \in Tokens, a \in {"NODATA", "NO", "UNPARSABLE"}}

\* the ascending UID sequences over 1..n
RECURSIVE AscSeqs(_)
AscSeqs(n) ==
    IF n = 0 THEN {<<>>}
    ELSE AscSeqs(n - 1) \cup {Append(s, n) : s \in AscSeqs(n - 1)}

Last(s) == s[Len(s)]

(* --------------------------- the IMAP server -------------------------- *)

\* SEARCH ALL: the sequence numbers 1..k of the k messages
SearchAll(box) == [i \in 1..Len(box) |-> i]

\* UID SEARCH UID lo:* (RFC 3501: "*" is the largest UID in the mailbox
\* and a range a:b is the same as b:a, so lo:* always holds the last UID)
UidSearchFrom(box, lo) ==
    IF box = <<>> THEN <<>>
    ELSE LET star == Last(box)
             a == Min(lo, star)
             b == Max(lo, star)
         IN SelectSeq(box, LAMBDA u : a <= u /\ u <= b)

\* FETCH x (RFC822 INTERNALDATE): x is a sequence number.  "OK" with the
\* message, "OK" without data ("NODATA"), or "NO"; no message is there to
\* deliver past the last sequence number.
FetchStatus(box, x, e) ==
    IF e.fetch[x] = "NO" THEN "NO"
    ELSE IF x \notin 1..Len(box) \/ e.fetch[x] = "NODATA" THEN "NODATA"
    ELSE "OK"

(* --------------------------- IMAPSSLConnection ------------------------ *)

\* imaplib refuses SEARCH and FETCH unless the session is in SELECTED
\* state, and aborts a command when the transport is broken
CommandError(st) ==
    IF st = "SELECTED" THEN ""
    ELSE IF st = "BROKEN" THEN "IMAP4.abort"
    ELSE "IMAP4.error"

_search(st, box, e) ==
    IF CommandError(st) # "" THEN Raise(CommandError(st), <<>>)
    ELSE IF e.search # "OK" THEN Raise("MailServerConnectException", <<>>)
    ELSE IF SearchAll(box) = <<>> THEN ReturnNone
    ELSE Return(SearchAll(box), <<>>)

_search_all(st, box, e) == _search(st, box, e)

_search_by_uid(lo, st, box, e) ==
    IF CommandError(st) # "" THEN Raise(CommandError(st), <<>>)
    ELSE IF e.search # "OK" THEN Raise("MailServerConnectException", <<>>)
    ELSE IF UidSearchFrom(box, lo) = <<>> THEN ReturnNone
    ELSE Return(UidSearchFrom(box, lo), <<>>)

\* f"{int(uid)+1}:*"
_search_over_than_uid(uid, st, box, e) == _search_by_uid(uid + 1, st, box, e)

\* __load_mail_by_uid: the exception, or the mail; got is how the fetch
\* ended
load_mail_by_uid(uid, st, box, e) ==
    IF CommandError(st) # ""
        THEN [exc |-> CommandError(st), mail |-> NoneMail, got |-> "ILLEGAL"]
    ELSE IF FetchStatus(box, uid, e) = "NO"
        THEN [exc |-> "MailLoadException", mail |-> NoneMail, got |-> "NO"]
    ELSE IF FetchStatus(box, uid, e) = "NODATA"
        THEN [exc |-> "MailMessageDataNotFoundException", mail |-> NoneMail,
              got |-> "NODATA"]
    ELSE IF e.fetch[uid] = "UNPARSABLE"
        THEN [exc |-> "ValueError", mail |-> NoneMail, got |-> "UNPARSABLE"]
    ELSE [exc |-> "", mail |-> IMAPMail(uid, box[uid]), got |-> "OK"]

\* one entry of the log of fetches
Fetched(uid, r) == [uid |-> uid, got |-> r.got]

\* uid_list[start:] of Python, start of either sign
SliceFromFront(l, start) == SubSeq(l, 1, Min(Len(l), IF start < 0 THEN 0 - start ELSE Len(l)))
SliceFrom(l, start) ==
    LET b == IF start < 0 THEN Max(Len(l) + start, 0) ELSE Min(start, Len(l))
    IN SubSeq(l, b + 1, Len(l))

\* [self.__load_mail_by_uid(uid) for uid in lastest_uid_list]
RECURSIVE LoadAll(_, _, _, _, _, _, _)
LoadAll(l, i, acc, log, st, box, e) ==
    IF i > Len(l) THEN Return(acc, log)
    ELSE LET r == load_mail_by_uid(l[i], st, box, e)
         IN IF r.exc # "" THEN Raise(r.exc, Append(log, Fetched(l[i], r)))
            ELSE LoadAll(l, i + 1, Append(acc, r.mail), Append(log, Fetched(l[i], r)), st, box, e)

lastest_mail_by_count(getmailcount, st, box, e) ==
    LET s == _search_all(st, box, e)
    IN IF s.exc # "" THEN s
       ELSE IF s.none THEN Return(<<>>, <<>>)
       ELSE LET lastest_uid_list ==
                    IF Len(s.val) <= getmailcount THEN s.val
                    ELSE SliceFrom(s.val, getmailcount * (-1))
            IN LoadAll(lastest_uid_list, 1, <<>>, <<>>, st, box, e)

\* lastest_mail: the mail, or None
lastest_mail(st, box, e) ==
    LET r == lastest_mail_by_count(1, st, box, e)
    IN IF r.exc # "" THEN [exc |-> r.exc, mail |-> NoneMail]
       ELSE IF r.val # <<>> THEN [exc |-> "", mail |-> r.val[1]]
       ELSE [exc |-> "", mail |-> NoneMail]

\* except MailMessageDataNotFoundException: the exceptions the scan catches
CaughtAny(exc) == exc # ""
Caught(exc) == exc = "MailMessageDataNotFoundException"

\* except MailMessageDataNotFoundException: break -- the index the loop
\* goes on with
SkipNotFound(l, i) == i + 1
OnNotFound(l, i) == Len(l) + 1

\* for uid in uid_list: try: mails.append(load) except NotFound: break
RECURSIVE ScanOverThan(_, _, _, _, _, _, _)
ScanOverThan(l, i, acc, log, st, box, e) ==
    IF i > Len(l) THEN Return(acc, log)
    ELSE LET r == load_mail_by_uid(l[i], st, box, e)
         IN IF Caught(r.exc)
                THEN ScanOverThan(l, OnNotFound(l, i), acc, Append(log, Fetched(l[i], r)), st, box, e)
            ELSE IF r.exc # "" THEN Raise(r.exc, Append(log, Fetched(l[i], r)))
            ELSE ScanOverThan(l, i + 1, Append(acc, r.mail), Append(log, Fetched(l[i], r)), st, box, e)

lastest_mail_over_than_arg_mail(mail, st, box, e) ==
    IF IsNone(mail) THEN Raise("AttributeError", <<>>)
    ELSE LET s == _search_over_than_uid(mail.uid, st, box, e)
         IN IF s.exc # "" THEN s
            ELSE IF s.none THEN Return(<<>>, <<>>)
            ELSE ScanOverThan(s.val, 1, <<>>, <<>>, st, box, e)

(* ------------------- connections and their sessions ------------------ *)

\* host, port, username, password, timeout, mailbox as the caller gave them
UserParams == [host |-> "imap.example.org", port |-> 993, username |-> "user",
               password |-> "secret", timeout |-> 30, mailbox |-> "Work"]

\* a connection object: the state of its imaplib session and its parameters
Session(st, params) == [state |-> st, params |-> params]
\* a slot no connection object lives in
Free == [state |-> "FREE", params |-> UserParams]

\* a session the server still holds
IsOpen(c) == c.state \in {"AUTH", "SELECTED"}

\* how opening a session can end
Outcomes == {"ok", "select_no", "gaierror", "oserror", "login_error"}

\* IMAPSSLConnection.__init__: the exception, or the connection.  The
\* result of select() is not looked at: a refused select leaves the
\* session authenticated with no mailbox selected.
IMAPSSLConnection(params, outcome) ==
    IF outcome = "gaierror" THEN [exc |-> "MailServerConnectException", conn |-> Free]
    ELSE IF outcome = "oserror" THEN [exc |-> "OSError", conn |-> Free]
    ELSE IF outcome = "login_error" THEN [exc |-> "MailServerConnectException", conn |-> Free]
    ELSE IF outcome = "select_no" THEN [exc |-> "", conn |-> Session("AUTH", params)]
    ELSE [exc |-> "", conn |-> Session("SELECTED", params)]

create_new_mail_server_connection(self, outcome) == IMAPSSLConnection(self.params, outcome)

\* imap.close(): legal in SELECTED state only; aborts on a broken transport
close(st) ==
    IF st = "SELECTED" THEN [exc |-> "", state |-> "AUTH"]
    ELSE IF st = "BROKEN" THEN [exc |-> "IMAP4.abort", state |-> st]
    ELSE [exc |-> "IMAP4.error", state |-> st]

\* imap.logout()
logout(st) == [exc |-> "", state |-> "LOGOUT"]

\* except Exception: pass
Propagated(exc) == exc
Swallowed(exc) == ""

\* disconnect: the exception that leaves it, and the connection after it.
\* When close() raises, logout() is not reached.
disconnect(c) ==
    LET cl == close(c.state)
        lo == logout(cl.state)
    IN IF cl.exc # ""
           THEN [exc |-> Swallowed(cl.exc), conn |-> [c EXCEPT !.state = cl.state]]
           ELSE [exc |-> Swallowed(lo.exc), conn |-> [c EXCEPT !.state = lo.state]]

\* the slot of a new connection object
NewConnId(cs) == CHOOSE c \in ConnIds : cs[c].state = "FREE" /\ \A d \in ConnIds : cs[d].state = "FREE" => c <= d

\* old_connection is rebound: the object it named is gone, unless its
\* session is still open
Release(cs, o) ==
    IF o = 0 \/ IsOpen(cs[o]) THEN cs ELSE [cs EXCEPT ![o] = Free]

(* ------------------- the mailbox changes on the server ---------------- *)

\* a message is delivered: it gets the next UID
Arrive(max) ==
    /\ uidnext <= max
    /\ mbox' = Append(mbox, uidnext)
    /\ uidnext' = uidnext + 1

\* a message is expunged: the later ones move down one sequence number
Expunge(i) ==
    /\ i \in 1..Len(mbox)
    /\ mbox' = SubSeq(mbox, 1, i - 1) \o SubSeq(mbox, i + 1, Len(mbox))
    /\ UNCHANGED uidnext

(* ---------------- a caller using the queries of a connection ---------- *)

\* the last call of the caller: its arguments, the search result it
\* worked on, and its outcome
NoCall == [op |-> "", n |-> 0, mail |-> NoneMail, uid_list |-> <<>>, ok |-> {},
           search |-> "", outcome |-> "",
           exc |-> "", val |-> <<>>, log |-> <<>>]

\* the status the search of a call got: none when the call raised before
\* the command was sent
SearchSeen(e, r) ==
    IF r.exc \in {"AttributeError", "IMAP4.error", "IMAP4.abort"} THEN "" ELSE e.search

\* ok: the sequence numbers a fetch would have delivered a message for
Call(op, n, mail, uid_list, e, r) ==
    [op |-> op, n |-> n, mail |-> mail, uid_list |-> uid_list,
     ok |-> {x \in Tokens : FetchStatus(mbox, x, e) = "OK" /\ e.fetch[x] = "OK"},
     search |-> SearchSeen(e, r), outcome |-> "",
     exc |-> r.exc, val |-> r.val, log |-> r.log]

\* no monitoring yet: no checkpoint, the locals of monitoring_new_mails
\* unset, nothing recorded
IdleMonitor ==
    /\ cp = [conn |-> 0, mail |-> NoneMail]
    /\ error = ""
    /\ old_connection = 0
    /\ new_mails = <<>>
    /\ is_fin = FALSE
    /\ start_time = 0
    /\ elapsed_time = 0
    /\ interval_sec = 0
    /\ timeout_sec = 0
    /\ now = 0
    /\ qconn = 0
    /\ polls = 0
    /\ sleeps = 0
    /\ created = <<>>
    /\ disc = <<>>

InitMailbox(max) ==
    /\ mbox \in AscSeqs(max)
    /\ uidnext \in 1..(max + 1)
    /\ \A i \in 1..Len(mbox) : mbox[i] < uidnext

ApiInit ==
    /\ InitMailbox(MaxUid)
    /\ conns = [c \in ConnIds |-> IF c = 1 THEN Session("SELECTED", UserParams) ELSE Free]
    /\ IdleMonitor
    /\ pc = "api"
    /\ ret = NoCall
    /\ held = NoneMail

CallByCount(n, e) ==
    /\ ret' = Call("lastest_mail_by_count", n, NoneMail,
                   _search_all(conns[1].state, mbox, e).val, e,
                   lastest_mail_by_count(n, conns[1].state, mbox, e))
    /\ UNCHANGED <<mbox, uidnext, held>>
    /\ UNCHANGED monitorVars

CallOverThan(e) ==
    /\ ~IsNone(held)
    /\ ret' = Call("lastest_mail_over_than_arg_mail", 0, held,
                   _search_over_than_uid(held.uid, conns[1].state, mbox, e).val, e,
                   lastest_mail_over_than_arg_mail(held, conns[1].state, mbox, e))
    /\ UNCHANGED <<mbox, uidnext, held>>
    /\ UNCHANGED monitorVars

\* the caller keeps one of the mails the last call returned
Keep(i) ==
    /\ i \in 1..Len(ret.val)
    /\ held' = ret.val[i]
    /\ ret' = NoCall
    /\ UNCHANGED <<mbox, uidnext>>
    /\ UNCHANGED monitorVars

\* the mailbox changes between two calls of the caller
ApiArrive == Arrive(MaxUid) /\ ret' = NoCall /\ UNCHANGED held /\ UNCHANGED monitorVars
ApiExpunge ==
    /\ \E i \in 1..MaxUid : Expunge(i)
    /\ ret' = NoCall
    /\ UNCHANGED held
    /\ UNCHANGED monitorVars

ApiNext ==
    \/ \E n \in 0..MaxCount, e \in Envs : CallByCount(n, e)
    \/ \E e \in Envs : CallOverThan(e)
    \/ \E i \in 1..MaxUid : Keep(i)
    \/ ApiArrive
    \/ ApiExpunge

ApiSpec == ApiInit /\ [][ApiNext]_vars

(* ------------------------- the claims on the queries ------------------ *)

\* the messages of a list of mails, by their UIDs on the server
Msgs(mails) == [i \in 1..Len(mails) |-> mails[i].msg]

OverThanReturned == ret.op = "lastest_mail_over_than_arg_mail" /\ ret.exc = ""
ByCountReturned == ret.op = "lastest_mail_by_count" /\ ret.exc = ""

\* C1: lastest_mail_over_than_arg_mail(reference) returns exactly the
\* messages of the mailbox whose UID is greater than the UID of the
\* reference message, in ascending order (so never the reference itself,
\* and the empty list when no message is newer).
C1_OverThanIsExactlyTheNewer ==
    OverThanReturned =>
        Msgs(ret.val) = SelectSeq(mbox, LAMBDA u : u > ret.mail.msg)

\* C8: in a lastest_mail_over_than_arg_mail scan the identifiers are
\* fetched in the order the search returned them; a fetch that is OK without
\* data is the last fetch of the scan, the call then returns without raising,
\* and it returns exactly the mails of the fetches before it, in order.
C8_ScanEndsAtFirstGap ==
    ret.op = "lastest_mail_over_than_arg_mail" =>
        /\ Len(ret.log) <= Len(ret.uid_list)
        /\ \A i \in 1..Len(ret.log) : ret.log[i].uid = ret.uid_list[i]
        /\ \A i \in 1..Len(ret.log) : ret.log[i].got = "NODATA" =>
              /\ i = Len(ret.log)
              /\ ret.exc = ""
              /\ Len(ret.val) = i - 1
              /\ \A j \in 1..(i - 1) :
                    /\ ret.log[j].got = "OK"
                    /\ ret.val[j] = IMAPMail(ret.uid_list[j], mbox[ret.uid_list[j]])

\* a scan that fetched a mail, then met a gap, and left unfetched an
\* identifier whose fetch would have delivered a message
C8_Witness ==
    /\ OverThanReturned
    /\ Len(ret.log) = 2
    /\ ret.log[2].got = "NODATA"
    /\ Len(ret.val) = 1
    /\ Len(ret.uid_list) = 3
    /\ ret.uid_list[3] \in ret.ok

\* C9: lastest_mail_by_count(n) returns exactly min(n, k) mails of a mailbox
\* of k messages: its last min(n, k) messages, in ascending order.
C9_ByCountIsTheLastN ==
    ByCountReturned =>
        Msgs(ret.val) = SubSeq(mbox, Len(mbox) - Min(ret.n, Len(mbox)) + 1, Len(mbox))

\* C12: a search (SEARCH ALL or UID SEARCH) that the server answers with
\* a status other than OK makes the call fail with MailSearchException, an
\* exception other than the MailServerConnectException of the constructor.
C12_SearchFailureIsSearchError ==
    ret.search = "NO" =>
        /\ ret.exc = "MailSearchException"
        /\ ret.exc # IMAPSSLConnection(UserParams, "gaierror").exc

\* C19: the identifier of a Mail denotes the message the Mail holds: every
\* Mail a query returns carries the UID of the message whose content it
\* has, also after messages were expunged (lastest_mail is the last element
\* of lastest_mail_by_count(1)).
C19_IdentifierIsTheUid ==
    (ret.op # "" /\ ret.exc = "") =>
        \A i \in 1..Len(ret.val) : ret.val[i].uid = ret.val[i].msg

(* ------------------------------ MailCheckPoint ------------------------ *)

Bump(n) == Min(n + 1, MaxPolls)

\* get_mails_over_than_checkpoint
get_mails_over_than_checkpoint(c, cs, box, e) ==
    lastest_mail_over_than_arg_mail(c.mail, cs[c.conn].state, box, e)

\* old_connection.disconnect(): the connection the teardown is called on
DisconnectsNew(old, new) == new
Superseded(old, new) == old

\* if is_fin: break
IgnoresFin(fin) == "check"
AfterCallback(fin) == IF fin THEN "stopped" ELSE "check"

\* the checkpoint mail after a batch: the assignment is commented out
AdvancedCheckpointMail(mail, mails) == Last(mails)
NextCheckpointMail(mail, mails) == mail

\* elapsed_time = time.time() - start_time
Elapsed(t, start) == t - start

\* if elapsed_time >= timeout_sec
TimedOutEarly(elapsed, timeout) == elapsed + 1 >= timeout
TimedOut(elapsed, timeout) == elapsed >= timeout

Fail(e) == pc' = "raised" /\ error' = e

\* the held connection when creating the new one raised: the teardown
\* comes after the creation
DisconnectedFirst(c) == disconnect(c).conn
HeldOnCreateError(c) == c

\* MailServerConnection.create_checkpoint, called on the caller's connection
create_checkpoint(e) ==
    /\ pc = "ready"
    /\ LET r == lastest_mail(conns[1].state, mbox, e)
       IN IF r.exc # ""
              THEN Fail(r.exc) /\ UNCHANGED cp
              ELSE /\ cp' = [conn |-> 1, mail |-> r.mail]
                   /\ pc' = "idle"
                   /\ UNCHANGED error
    /\ UNCHANGED <<mbox, uidnext, conns, old_connection, new_mails, is_fin,
                   start_time, elapsed_time, interval_sec, timeout_sec, now,
                   qconn, polls, sleeps, created, disc, ret, held>>

\* monitoring_new_mails is entered: start_time = time.time()
MonitorStart(interval, timeout) ==
    /\ pc = "idle"
    /\ now + timeout <= MaxTime
    /\ start_time' = now
    /\ interval_sec' = interval
    /\ timeout_sec' = timeout
    /\ pc' = "loop"
    /\ UNCHANGED <<mbox, uidnext, conns, cp, old_connection, new_mails, is_fin,
                   elapsed_time, now, error,
                   qconn, polls, sleeps, created, disc, ret, held>>

\* old_connection = self._mailserverconnection
\* self._mailserverconnection = old_connection.create_new_mail_server_connection()
CreateNew(outcome) ==
    /\ pc = "loop"
    /\ \E c \in ConnIds : Release(conns, old_connection)[c].state = "FREE"
    /\ old_connection' = cp.conn
    /\ LET r == create_new_mail_server_connection(conns[cp.conn], outcome)
           freed == Release(conns, old_connection)
           new == NewConnId(freed)
       IN IF r.exc # ""
              THEN /\ Fail(r.exc)
                   /\ conns' = [freed EXCEPT ![cp.conn] = HeldOnCreateError(@)]
                   /\ UNCHANGED <<cp, created>>
              ELSE /\ conns' = [freed EXCEPT ![new] = r.conn]
                   /\ cp' = [cp EXCEPT !.conn = new]
                   /\ created' = Append(created, new)
                   /\ pc' = "disconnect"
                   /\ UNCHANGED error
    /\ ret' = [NoCall EXCEPT !.op = "IMAPSSLConnection", !.outcome = outcome,
                             !.exc = create_new_mail_server_connection(conns[cp.conn], outcome).exc]
    /\ UNCHANGED <<mbox, uidnext, new_mails, is_fin,
                   start_time, elapsed_time, interval_sec, timeout_sec, now,
                   qconn, polls, sleeps, disc, held>>

\* old_connection.disconnect()
DisconnectOld ==
    /\ pc = "disconnect"
    /\ LET c == Superseded(old_connection, cp.conn)
           r == disconnect(conns[c])
       IN /\ conns' = [conns EXCEPT ![c] = r.conn]
          /\ disc' = Append(disc, c)
          /\ IF r.exc # "" THEN Fail(r.exc) ELSE pc' = "query" /\ UNCHANGED error
    /\ UNCHANGED <<mbox, uidnext, cp, old_connection, new_mails, is_fin,
                   start_time, elapsed_time, interval_sec, timeout_sec, now,
                   qconn, polls, sleeps, created, ret, held>>

\* new_mails = self.get_mails_over_than_checkpoint().  A cycle without a
\* batch leaves the callback with no batch of the cycle before.
Query(e) ==
    /\ pc = "query"
    /\ LET r == get_mails_over_than_checkpoint(cp, conns, mbox, e)
       IN IF r.exc # ""
              THEN Fail(r.exc) /\ UNCHANGED new_mails
              ELSE /\ new_mails' = r.val
                   /\ pc' = IF r.val # <<>> THEN "callback" ELSE "check"
                   /\ UNCHANGED error
    /\ qconn' = cp.conn
    /\ polls' = Bump(polls)
    /\ LET r == get_mails_over_than_checkpoint(cp, conns, mbox, e)
       IN ret' = [NoCall EXCEPT !.op = "get_mails_over_than_checkpoint",
                               !.search = SearchSeen(e, r), !.exc = r.exc, !.log = r.log]
          /\ held' = IF r.exc = "" /\ r.val = <<>> THEN NoneMail ELSE held
    /\ UNCHANGED <<mbox, uidnext, conns, cp, old_connection, is_fin,
                   start_time, elapsed_time, interval_sec, timeout_sec, now,
                   sleeps, created, disc>>

\* the batch a callback declined, with the mailbox it was read from
Declined(mails, box) == [batch |-> mails, box |-> box]

\* is_fin = func(new_mails); if is_fin: break.  The callback keeps the
\* batch it declines.
Callback(fin) ==
    /\ pc = "callback"
    /\ is_fin' = fin
    /\ pc' = AfterCallback(fin)
    /\ cp' = [cp EXCEPT !.mail = NextCheckpointMail(@, new_mails)]
    /\ held' = IF fin THEN held ELSE Declined(new_mails, mbox)
    /\ UNCHANGED <<mbox, uidnext, conns, old_connection, new_mails,
                   start_time, elapsed_time, interval_sec, timeout_sec, now,
                   error, qconn, polls, sleeps, created, disc, ret>>

\* elapsed_time = time.time() - start_time; if elapsed_time >= timeout_sec: raise
TimeoutCheck ==
    /\ pc = "check"
    /\ elapsed_time' = Elapsed(now, start_time)
    /\ IF TimedOut(elapsed_time', timeout_sec)
          THEN Fail("MailMonitoringTimeoutException")
          ELSE pc' = "sleep" /\ UNCHANGED error
    /\ UNCHANGED <<mbox, uidnext, conns, cp, old_connection, new_mails, is_fin,
                   start_time, interval_sec, timeout_sec, now,
                   qconn, polls, sleeps, created, disc, ret, held>>

\* time.sleep(interval_sec), then the next cycle begins.  new_mails and
\* elapsed_time are assigned in every cycle before they are read: their
\* old values are dropped here, with the record of the cycle's calls.
Sleep ==
    /\ pc = "sleep"
    /\ now' = Min(now + interval_sec, MaxTime)
    /\ sleeps' = Bump(sleeps)
    /\ pc' = "loop"
    /\ new_mails' = <<>>
    /\ elapsed_time' = 0
    /\ created' = <<>>
    /\ disc' = <<>>
    /\ qconn' = 0
    /\ ret' = NoCall
    /\ UNCHANGED <<mbox, uidnext, conns, cp, old_connection, is_fin,
                   start_time, interval_sec, timeout_sec,
                   error, polls, held>>

\* the wall clock advances; it is read on entry and at the timeout check
Tick ==
    /\ pc \in {"idle", "check"}
    /\ now < MaxTime
    /\ now' = now + 1
    /\ UNCHANGED <<mbox, uidnext, conns, pc, cp, old_connection, new_mails, is_fin,
                   start_time, elapsed_time, interval_sec, timeout_sec,
                   error, qconn, polls, sleeps, created, disc, ret, held>>

\* the caller disconnects the connection the checkpoint was made on,
\* before monitoring (the monitor reconnects from its parameters)
CallerDisconnect ==
    /\ pc = "idle"
    /\ LET r == disconnect(conns[1])
       IN /\ conns' = [conns EXCEPT ![1] = r.conn]
          /\ ret' = [NoCall EXCEPT !.op = "disconnect", !.outcome = conns[1].state,
                                  !.exc = r.exc]
    /\ UNCHANGED <<mbox, uidnext, pc, cp, old_connection, new_mails, is_fin,
                   start_time, elapsed_time, interval_sec, timeout_sec, now,
                   error, qconn, polls, sleeps, created, disc, held>>

\* the transport of a connection breaks: of the checkpoint's connection
\* before monitoring, of the superseded connection before its teardown
ConnectionBreaks ==
    /\ pc \in {"idle", "disconnect"}
    /\ LET c == IF pc = "idle" THEN cp.conn ELSE old_connection
       IN /\ IsOpen(conns[c])
          /\ conns' = [conns EXCEPT ![c].state = "BROKEN"]
    /\ UNCHANGED <<mbox, uidnext, pc, cp, old_connection, new_mails, is_fin,
                   start_time, elapsed_time, interval_sec, timeout_sec, now,
                   error, qconn, polls, sleeps, created, disc, ret, held>>

\* the mailbox changes; it is read by create_checkpoint and by the query
MailArrives ==
    /\ pc \in {"ready", "query"}
    /\ Arrive(MaxMonitorUid)
    /\ UNCHANGED monitorVars
    /\ UNCHANGED apiVars

MailExpunged ==
    /\ pc \in {"ready", "query"}
    /\ \E i \in 1..MaxUid : Expunge(i)
    /\ UNCHANGED monitorVars
    /\ UNCHANGED apiVars

Init ==
    /\ InitMailbox(MaxMonitorUid)
    /\ conns \in {[c \in ConnIds |-> IF c = 1 THEN IMAPSSLConnection(UserParams, o).conn ELSE Free] :
                     o \in {"ok", "select_no"}}
    /\ IdleMonitor
    /\ pc = "ready"
    /\ ret = NoCall
    /\ held = NoneMail

MonitorStep ==
    \/ \E o \in Outcomes : CreateNew(o)
    \/ DisconnectOld
    \/ \E e \in Envs : Query(e)
    \/ \E fin \in BOOLEAN : Callback(fin)
    \/ TimeoutCheck
    \/ Sleep

Next ==
    \/ \E e \in Envs : create_checkpoint(e)
    \/ \E i \in 0..MaxInterval, t \in 0..MaxTimeout : MonitorStart(i, t)
    \/ MonitorStep
    \/ Tick
    \/ CallerDisconnect
    \/ ConnectionBreaks
    \/ MailArrives
    \/ MailExpunged

Spec == Init /\ [][Next]_vars

\* the loop runs on, and the wall clock advances
LiveSpec == Spec /\ WF_vars(MonitorStep) /\ SF_vars(Tick)

(* ------------------------ the claims on the monitor ------------------- *)

Timeout == "MailMonitoringTimeoutException"
OpenSessions == {c \in ConnIds : IsOpen(conns[c])}

\* C2: the callback is invoked only with a non-empty batch, and the batch
\* is the complete forward-diff of that cycle: every message of the mailbox
\* whose UID is greater than the UID of the checkpoint's reference message,
\* none missing, in ascending order.  (The mailbox is the one the query of
\* this cycle read: it does not change between the query and the callback.)
C2_BatchIsTheForwardDiff ==
    pc = "callback" =>
        /\ new_mails # <<>>
        /\ Msgs(new_mails) = SelectSeq(mbox, LAMBDA u : u > cp.mail.msg)

\* C3: when the callback signals completion, monitoring_new_mails returns
\* normally: it stops without raising, whatever the time elapsed, and from
\* then on it takes no step at all (no connection, search, fetch, sleep or
\* timeout check).
C3_StopOnCompletion ==
    [][/\ (pc = "callback" /\ is_fin') =>
            /\ pc' = "stopped"
            /\ error' = ""
            /\ UNCHANGED <<conns, cp, now, polls, sleeps, created, disc, qconn>>
       /\ pc = "stopped" => UNCHANGED vars]_vars

\* a stop at a moment when the timeout has already run out
C3_Witness ==
    /\ pc = "stopped"
    /\ is_fin
    /\ timeout_sec >= 1
    /\ now - start_time >= timeout_sec

\* what a call to the server raises when it fails: imaplib's errors, the
\* errors of opening a session, a search or a fetch that is not OK, a
\* payload that cannot be parsed
CallErrors == {"IMAP4.error", "IMAP4.abort", "OSError", "MailServerConnectException",
               "MailLoadException", "ValueError"}

\* C4: a monitor that has entered its loop, whose callback never signals
\* completion and in which no call to the server fails, ends by raising
\* the monitoring-timeout error (the loop runs on and the clock advances).
C4_EventuallyTimesOut ==
    ([](pc # "stopped") /\ [](error \notin CallErrors))
        => ((pc = "loop") ~> (pc = "raised" /\ error = Timeout))

\* What holds of the loop instead: a monitor that has entered its loop
\* is stopped by its callback, or raises.
MonitorTerminates ==
    (pc = "loop") ~> (pc = "stopped" \/ pc = "raised")

\* C5: the timeout error is raised only at a timeout check that found the
\* time elapsed since start_time >= timeout_sec, in a cycle whose callback
\* did not signal completion, after that cycle's reconnect and query; so at
\* least one poll was done, and no sleep precedes the first poll.
C5_TimeoutOnlyAfterAPoll ==
    /\ error = Timeout =>
          /\ pc = "raised"
          /\ elapsed_time = now - start_time
          /\ elapsed_time >= timeout_sec
          /\ ~is_fin
          /\ polls >= 1
          /\ created = <<cp.conn>>
          /\ disc = <<old_connection>>
          /\ qconn = cp.conn
    /\ polls = 0 => sleeps = 0

\* a timeout of 0 seconds raised after exactly one poll
C5_Witness ==
    /\ error = Timeout
    /\ timeout_sec = 0
    /\ polls = 1
    /\ sleeps = 0

\* C6: when the query of a cycle is due, exactly one connection has been
\* created in the cycle, from the connection held before and with its
\* parameters, and it is the held one; disconnect has been called once, on
\* the superseded connection; the query runs on the new connection, whose
\* session has not been logged out; never are more than two sessions open.
C6_ReconnectPerCycle ==
    /\ pc = "query" =>
          /\ created = <<cp.conn>>
          /\ cp.conn # old_connection
          /\ conns[cp.conn].params = conns[old_connection].params
          /\ disc = <<old_connection>>
          /\ conns[cp.conn].state \in {"AUTH", "SELECTED"}
    /\ qconn # 0 => qconn = cp.conn /\ created = <<qconn>> /\ disc = <<old_connection>>
    /\ Cardinality(OpenSessions) <= 2

\* the query of a later cycle is due, on a connection created by a
\* connection that the loop created itself
C6_Witness ==
    /\ pc = "query"
    /\ sleeps >= 1
    /\ conns[cp.conn].state = "SELECTED"
    /\ conns[old_connection].state = "LOGOUT"

\* C7: monitoring_new_mails never changes the checkpoint mail: only
\* create_checkpoint sets it.
C7_CheckpointMailIsKept ==
    [][pc # "ready" => cp'.mail = cp.mail]_vars

\* a second batch was delivered after the callback declined the first, and
\* the reference is not the last mail delivered
C7_Witness ==
    /\ pc = "callback"
    /\ polls >= 2
    /\ ~IsNone(cp.mail)
    /\ Last(new_mails) # cp.mail

\* C10: create_checkpoint returns a checkpoint that holds the connection it
\* was called on and whose mail is the last message of the mailbox (the
\* last element of lastest_mail_by_count(1)), or None for an empty mailbox;
\* it leaves every connection as it was.
C10_CheckpointOfLatestMail ==
    [][(pc = "ready" /\ pc' = "idle") =>
          /\ cp'.conn = 1
          /\ conns' = conns
          /\ mbox = <<>> => IsNone(cp'.mail)
          /\ mbox # <<>> =>
                /\ cp'.mail.msg = Last(mbox)
                /\ cp'.mail = Last(lastest_mail_by_count(1, conns[1].state, mbox, AllOk).val)]_vars

\* a checkpoint made on a mailbox of several messages
C10_Witness ==
    /\ pc = "idle"
    /\ cp.conn = 1
    /\ Len(mbox) >= 2
    /\ cp.mail.msg = Last(mbox)

\* the answers of the server that make the query of a cycle fail
FailedAnswer(r) ==
    \/ r.search = "NO"
    \/ \E i \in 1..Len(r.log) : r.log[i].got \in {"NO", "UNPARSABLE"}

\* C11: a query that met a search status other than OK, a fetch status
\* other than OK or an unparsable message, or that raised for any other
\* reason, ends monitoring_new_mails with that exception: the callback is
\* not invoked (not with the mails fetched before the failure either), and
\* after it the monitor takes no step (no cycle, sleep or timeout check).
C11_ErrorsEndTheLoop ==
    [][/\ (pc = "query" /\ (FailedAnswer(ret') \/ ret'.exc # "")) =>
            /\ pc' = "raised"
            /\ error' = ret'.exc
            /\ error' \notin {"", Timeout}
            /\ UNCHANGED <<new_mails, is_fin, cp, conns, now, sleeps, elapsed_time>>
       /\ pc = "callback" => ~FailedAnswer(ret) /\ ret.exc = ""
       /\ pc = "raised" => UNCHANGED vars]_vars

\* a fetch failed after an earlier fetch of the same query had delivered
\* a mail
C11_Witness ==
    /\ pc = "raised"
    /\ error = "MailLoadException"
    /\ Len(ret.log) = 2
    /\ ret.log[1].got = "OK"
    /\ ret.log[2].got = "NO"

\* C13: the constructor fails with MailServerConnectException for every
\* network failure while the session is opened, and with another
\* exception when the login is rejected; a failed construction is not
\* retried and yields no connection.
C13_ConstructionErrorsAreDistinct ==
    ret.op = "IMAPSSLConnection" =>
        /\ ret.outcome \in {"gaierror", "oserror"} => ret.exc = "MailServerConnectException"
        /\ ret.outcome = "login_error" => ret.exc \notin {"", "MailServerConnectException"}
        /\ ret.exc # "" =>
              /\ pc = "raised"
              /\ created = <<>>
              /\ cp.conn = old_connection

C20_NoneCheckpointIsMonitored ==
    (IsNone(cp.mail) /\ pc = "raised" /\ polls >= 1) =>
        error \in CallErrors \cup {Timeout}

IsPrefix(a, b) == Len(a) <= Len(b) /\ SubSeq(b, 1, Len(a)) = a

\* C21: when the callback declined the batch B of a cycle, no message was
\* removed from the mailbox since, and the query of the next cycle returns
\* without meeting a fetch gap, then that cycle invokes the callback, with
\* a batch that begins with B.
C21_DeclinedBatchComesAgain ==
    [][(/\ pc = "query"
        /\ pc' # "query"
        /\ held # NoneMail
        /\ IsPrefix(held.box, mbox)
        /\ ret'.exc = ""
        /\ \A i \in 1..Len(ret'.log) : ret'.log[i].got = "OK") =>
            /\ pc' = "callback"
            /\ IsPrefix(held.batch, new_mails')]_vars

\* C22: when creating the new connection raises at the start of a cycle,
\* the exception leaves monitoring_new_mails and the checkpoint is as it
\* was: it holds the connection it held, whose session is untouched (no
\* disconnect was called), and the same mail; the callback is not invoked.
C22_FailedReconnectKeepsCheckpoint ==
    [][(pc = "loop" /\ pc' # "disconnect") =>
            /\ pc' = "raised"
            /\ error' = ret'.exc
            /\ error' \in {"MailServerConnectException", "OSError"}
            /\ cp' = cp
            /\ conns'[cp.conn] = conns[cp.conn]
            /\ UNCHANGED <<disc, created, new_mails, is_fin, held, polls>>]_vars

\* the reconnect of a later cycle failed, and the checkpoint holds the
\* connection of the cycle before, its mailbox still selected
C22_Witness ==
    /\ pc = "raised"
    /\ ret.op = "IMAPSSLConnection"
    /\ ret.exc = "MailServerConnectException"
    /\ sleeps >= 1
    /\ cp.conn = old_connection
    /\ conns[cp.conn].state = "SELECTED"
    /\ disc = <<>>

\* C23: a connection the constructor returns has its mailbox selected: a
\* select() that the server refuses makes the constructor fail, so that no
\* search or fetch is called on a session without a selected mailbox.
C23_ReturnedConnectionIsSelected ==
    ret.op = "IMAPSSLConnection" =>
        /\ ret.outcome = "select_no" => ret.exc # ""
        /\ ret.exc = "" => conns[cp.conn].state = "SELECTED"

(* ------------------------ MailAddress (mailaddress.py) ---------------- *)

\* the longest address string parsed
MaxAddrLen == 4

\* a string is the sequence of its characters
Chars == {"a", "b", "+", "@"}

RECURSIVE Strings(_)
Strings(n) ==
    IF n = 0 THEN {<<>>}
    ELSE Strings(n - 1) \cup {Append(t, c) : t \in Strings(n - 1), c \in Chars}

\* ch in s
Has(s, ch) == \E i \in 1..Len(s) : s[i] = ch

\* where s.split(ch, 1) cuts
LastIndex(s, ch) == CHOOSE i \in 1..Len(s) : s[i] = ch /\ \A j \in (i + 1)..Len(s) : s[j] # ch
FirstIndex(s, ch) == CHOOSE i \in 1..Len(s) : s[i] = ch /\ \A j \in 1..(i - 1) : s[j] # ch

\* s.split(ch, 1) when ch is not in s: the list of s alone
AbsentPadded(s) == <<s, <<>>>>
Absent(s) == <<s>>

\* s.split(ch, 1)
SplitOnce(s, ch) ==
    IF Has(s, ch)
        THEN <<SubSeq(s, 1, FirstIndex(s, ch) - 1), SubSeq(s, FirstIndex(s, ch) + 1, Len(s))>>
        ELSE Absent(s)

\* MailAddress(mailaddress, name): the exception, or the fields of the
\* object.  user, domain = mailaddress.split("@", 1) raises ValueError when
\* the list has one element.
MailAddress(mailaddress, name) ==
    LET parts == SplitOnce(mailaddress, "@")
    IN IF Len(parts) # 2
           THEN [exc |-> "ValueError", made |-> FALSE]
           ELSE LET user == parts[1]
                    domain == parts[2]
                    plus == SplitOnce(user, "+")
                IN [exc |-> "", made |-> TRUE,
                    mailaddress |-> mailaddress,
                    has_name |-> name # <<>>,
                    name |-> name,
                    mailaddress_user_area |-> user,
                    mailaddress_dmail_area |-> domain,
                    is_plusaddress |-> Has(user, "+"),
                    mailaddress_user_plus_bsae_user_area |-> IF Has(user, "+") THEN plus[1] ELSE user,
                    mailaddress_user_plus_tag_area |-> IF Has(user, "+") THEN plus[2] ELSE <<>>]

(* ------------------------------ IMAPMail (mail.py) -------------------- *)

\* the most parts of a multipart message
MaxParts == 2
\* the most chunks of a header value
MaxChunks == 2

\* str(part.get("Content-Disposition")), cut into pieces so that the word
\* attachment, where the string holds it, is a piece of its own ("None" is
\* str(None), of a part without the header)
Dispositions ==
    {<<"None">>, <<"inline">>, <<"attachment">>, <<"attachment", "; filename=\"a.txt\"">>,
     <<"inline; filename=\"", "attachment", ".txt\"">>, <<"Attachment">>}

\* the disposition type of the header (RFC 2183: matched without case)
IsAttachment(h) == h[1] \in {"attachment", "Attachment"}

\* "attachment" not in content_disposition
NotInAttachment(h) == \A i \in 1..Len(h) : h[i] # "attachment"

ContentTypes == {"text/plain", "text/html"}
Contents == {"", "x", "y"}
Parts == [content_type : ContentTypes, disposition : Dispositions, content : Contents]

\* a message: its own content type and content, and its parts in document
\* order when it is multipart
Messages ==
    [multipart : {FALSE}, content_type : ContentTypes, content : Contents, parts : {<<>>}]
    \cup {[multipart |-> TRUE, content_type |-> "multipart/mixed", content |-> "", parts |-> ps] :
             ps \in UNION {[1..n -> Parts] : n \in 1..MaxParts}}

PlainTextMailBody(content_type, content) ==
    [variant |-> "PlainText", content_type |-> content_type, content |-> content]
HTMLMailBody(content_type, content) ==
    [variant |-> "HTML", content_type |-> content_type, content |-> content]

\* self._mail_obj.walk(): the message itself, then its parts
walk(m) ==
    <<[content_type |-> m.content_type, disposition |-> <<"None">>, content |-> m.content]>> \o m.parts

\* for part in walk(): ... break -- the content type and the body the
\* loop ends with (None for no body)
RECURSIVE FindBody(_, _, _)
FindBody(w, i, content_type) ==
    IF i > Len(w) THEN [content_type |-> content_type, none |-> TRUE, body_org |-> ""]
    ELSE IF w[i].content_type = "text/plain" /\ NotInAttachment(w[i].disposition)
        THEN [content_type |-> w[i].content_type, none |-> FALSE, body_org |-> w[i].content]
    ELSE FindBody(w, i + 1, w[i].content_type)

\* IMAPMail.__init__, the body: multipart or single part, then the wrapping
MailBodyOf(m) ==
    LET f == IF m.multipart THEN FindBody(walk(m), 1, "")
             ELSE [content_type |-> m.content_type, none |-> FALSE, body_org |-> m.content]
    IN IF ~f.none /\ f.body_org # ""
           THEN IF f.content_type = "text/html"
                    THEN HTMLMailBody(f.content_type, f.body_org)
                    ELSE PlainTextMailBody(f.content_type, f.body_org)
           ELSE PlainTextMailBody("text/plain", "")

\* a header: None when the message has no such header, else the chunks
\* decode_header cuts it into; a chunk is text ("" for its charset), or
\* the bytes of an encoded word with the charset it declares
None == [none |-> TRUE, chunks |-> <<>>]
Charsets == {"", "utf-8", "x-unknown"}
Chunks == [charset : Charsets, bytes : {"valid", "invalid"}]
Headers ==
    {None} \cup {[none |-> FALSE, chunks |-> cs] : cs \in UNION {[1..n -> Chunks] : n \in 1..MaxChunks}}

\* part.decode(enc or "utf-8", errors="ignore"): LookupError for a codec
\* Python does not know; the bytes that are invalid are dropped
DecodePart(c) ==
    IF c.charset = "x-unknown" THEN [exc |-> "LookupError", str |-> <<>>]
    ELSE IF c.bytes = "invalid" THEN [exc |-> "", str |-> <<>>]
    ELSE [exc |-> "", str |-> <<"text">>]

\* __decode_mime_header
RECURSIVE DecodeParts(_, _, _)
DecodeParts(cs, i, decoded_str) ==
    IF i > Len(cs) THEN [exc |-> "", str |-> decoded_str]
    ELSE IF DecodePart(cs[i]).exc # "" THEN [exc |-> DecodePart(cs[i]).exc, str |-> <<>>]
    ELSE DecodeParts(cs, i + 1, decoded_str \o DecodePart(cs[i]).str)

decode_mime_header(value) ==
    IF value.none THEN [exc |-> "", str |-> <<>>]
    ELSE DecodeParts(value.chunks, 1, <<>>)

\* __get_addresses: whether it returns [] without parsing
NoAddresses(header_value) == header_value = <<>>

(* ----------------------- a caller parsing addresses and mails --------- *)

\* what the caller is about to parse
Inputs ==
    {[op |-> "MailAddress", arg |-> a, name |-> n] :
        a \in Strings(MaxAddrLen), n \in {<<>>, <<"a">>}}
    \cup {[op |-> "IMAPMail.body", arg |-> m] : m \in Messages}
    \cup {[op |-> "IMAPMail.header", arg |-> h] : h \in Headers}

MailInit ==
    /\ mbox = <<>>
    /\ uidnext = 1
    /\ conns = [c \in ConnIds |-> Free]
    /\ IdleMonitor
    /\ pc = "parse"
    /\ ret \in Inputs
    /\ held = NoneMail

\* all but pc and ret
parseVars == <<mbox, uidnext, conns, cp, old_connection, new_mails, is_fin,
               start_time, elapsed_time, interval_sec, timeout_sec, now,
               error, qconn, polls, sleeps, created, disc, held>>

ParseAddress ==
    /\ pc = "parse"
    /\ ret.op = "MailAddress"
    /\ ret' = [op |-> ret.op, arg |-> ret.arg, res |-> MailAddress(ret.arg, ret.name)]
    /\ pc' = "parsed"
    /\ UNCHANGED parseVars

ParseBody ==
    /\ pc = "parse"
    /\ ret.op = "IMAPMail.body"
    /\ ret' = [op |-> ret.op, arg |-> ret.arg, res |-> MailBodyOf(ret.arg)]
    /\ pc' = "parsed"
    /\ UNCHANGED parseVars

DecodeHeader ==
    /\ pc = "parse"
    /\ ret.op = "IMAPMail.header"
    /\ ret' = [op |-> ret.op, arg |-> ret.arg, res |-> decode_mime_header(ret.arg),
               no_addresses |-> NoAddresses(decode_mime_header(ret.arg).str)]
    /\ pc' = "parsed"
    /\ UNCHANGED parseVars

MailNext ==
    \/ ParseAddress
    \/ ParseBody
    \/ DecodeHeader

MailSpec == MailInit /\ [][MailNext]_vars

(* ------------------------ the claims on the parsing ------------------- *)

\* the parts of a message that are text/plain and not an attachment
Qualifying(m) ==
    {i \in 1..Len(m.parts) :
        m.parts[i].content_type = "text/plain" /\ ~IsAttachment(m.parts[i].disposition)}

\* C15: the body of a multipart message is the content of its first part
\* that is text/plain and whose disposition is not attachment, as a plain
\* text body; the empty text/plain body when no part qualifies; never None.
C15_BodyIsFirstPlainPart ==
    (pc = "parsed" /\ ret.op = "IMAPMail.body" /\ ret.arg.multipart) =>
        /\ ret.res.variant \in {"PlainText", "HTML"}
        /\ IF Qualifying(ret.arg) = {}
              THEN ret.res = PlainTextMailBody("text/plain", "")
              ELSE LET first == CHOOSE i \in Qualifying(ret.arg) :
                                    \A j \in Qualifying(ret.arg) : i <= j
                   IN /\ ret.res.variant = "PlainText"
                      /\ ret.res.content = ret.arg.parts[first].content

\* C16: an address with an "@" is cut at its first "@" into the user part
\* and the domain part, which with the "@" make up the address; the user
\* part with a "+" is cut at its first "+" into base name and tag
\* (is_plusaddress true), and without one it is the base name, with an empty
\* tag (is_plusaddress false).
C16_AddressSplitsAtFirstSeparators ==
    (pc = "parsed" /\ ret.op = "MailAddress" /\ Has(ret.arg, "@")) =>
        LET r == ret.res
            user == r.mailaddress_user_area
            base == r.mailaddress_user_plus_bsae_user_area
            tag == r.mailaddress_user_plus_tag_area
        IN /\ r.exc = ""
           /\ user \o <<"@">> \o r.mailaddress_dmail_area = ret.arg
           /\ ~Has(user, "@")
           /\ Has(user, "+") =>
                 /\ r.is_plusaddress
                 /\ base \o <<"+">> \o tag = user
                 /\ ~Has(base, "+")
           /\ ~Has(user, "+") =>
                 /\ ~r.is_plusaddress
                 /\ base = user
                 /\ tag = <<>>

\* an address with a second "@", in its domain, and a second "+", in
\* its tag
C16_Witness ==
    /\ pc = "parsed"
    /\ ret.op = "MailAddress"
    /\ ret.res.exc = ""
    /\ ret.res.is_plusaddress
    /\ Has(ret.res.mailaddress_dmail_area, "@")
    /\ Has(ret.res.mailaddress_user_plus_tag_area, "+")

\* C17: MailAddress raises (ValueError, the error of the format) and makes
\* no object for an address without an "@", and raises for no other address.
C17_OnlyTheFormatCheckFails ==
    (pc = "parsed" /\ ret.op = "MailAddress") =>
        /\ ~Has(ret.arg, "@") => ret.res.exc = "ValueError" /\ ~ret.res.made
        /\ ret.res.exc # "" => ~Has(ret.arg, "@")
        /\ ret.res.made <=> ret.res.exc = ""

\* an address without an "@" but with a "+" was refused
C17_Witness ==
    /\ pc = "parsed"
    /\ ret.op = "MailAddress"
    /\ ret.res.exc = "ValueError"
    /\ Has(ret.arg, "+")
    /\ Len(ret.arg) >= 3

\* C18: decoding a header never raises, whatever charset an encoded word
\* declares and whatever its bytes; a missing header decodes to the empty
\* string, which yields the empty address list.
C18_HeaderDecodingNeverRaises ==
    (pc = "parsed" /\ ret.op = "IMAPMail.header") =>
        /\ ret.res.exc = ""
        /\ ret.arg.none => ret.res.str = <<>> /\ ret.no_addresses

====
